---------------------------- MODULE Spec2Model ----------------------------
(***************************************************************************)
(* Identity and ownership-authorization core of the conduit backend.       *)
(*                                                                         *)
(*   SpecGuard : the article / comment handlers that mutate owned rows     *)
(*               (src/http/article/mod.rs, src/http/article/comments.rs),  *)
(*               run by two concurrent request workers against one store.  *)
(*   SpecAuth  : the token codec and the two auth middlewares              *)
(*               (src/http/auth.rs) under a clock.                         *)
(*   SpecCred  : hash_password and verify_password (src/http/users.rs).    *)
(*   SpecUsers : the handlers of src/http/users.rs against the user table. *)
(*                                                                         *)
(* Every handler issues exactly one SQL statement; the store executes a    *)
(* statement as one indivisible step (spec section 5), and inside the      *)
(* statement every sub-query of a WITH reads the same snapshot taken       *)
(* before the statement's own writes.                                      *)
(***************************************************************************)
EXTENDS Integers, Sequences, FiniteSets, TLC

VARIABLES
    article,        \* table article: set of rows
    comment,        \* table article_comment: set of rows
    nextArticleId,  \* article_id generator (uuid default in the table)
    nextCommentId,  \* comment_id generator (bigserial)
    req,            \* per worker: the request it is serving
    received,       \* number of requests received so far
    created,        \* history: slugs that have come into existence
    gone,           \* history: slugs deleted successfully and not re-created
    goneComments,   \* history: comment ids deleted successfully
    now,            \* the clock, in ticks (TicksPerSec ticks per second)
    issued,         \* history: tokens handed out by with_sub_to_jwt
    mw,             \* the middleware pipeline of one request
    rng,            \* rand::thread_rng: number of salts drawn so far
    hashed,         \* history: the calls of hash_password and their results
    vp,             \* the last call of verify_password
    user,           \* table "user": set of rows
    ulast           \* the last request to a users.rs handler and its response

guardVars == <<article, comment, nextArticleId, nextCommentId, req, received, created, gone,
               goneComments>>
authVars == <<now, issued, mw>>
credVars == <<rng, hashed, vp>>
userVars == <<user, ulast>>
vars == <<article, comment, nextArticleId, nextCommentId, req, received, created, gone,
          goneComments, now, issued, mw, rng, hashed, vp, user, ulast>>

---------------------------------------------------------------------------
(* Bounds of the model *)

MaxArticles == 2
MaxComments == 1
MaxRequests == 4
MaxIssued == 1
MaxDrift == 1
MaxDraws == 3
MaxLogged == 2
TicksPerSec == 2
StartSec == 1000

\* Program constants
DEFAULT_SESSION_LENGTH == 1209600   \* time::Duration::weeks(2), in seconds
Leeway == 60                        \* Validation::new: leeway, in seconds
SCHEME_PREFIX == "Bearer "
rsa_private_key == "priv1"          \* Config.rsa_private_key
rsa_public_key == "pub1"            \* Config.rsa_public_key

Workers == {"w1", "w2"}
Users == {"A", "B"}
Titles == {"T 1", "T 2"}
Passwords == {"pw1", "pw2"}
Emails == {"a@x", "b@x"}
Usernames == {"ann", "bob"}
None == "None"

---------------------------------------------------------------------------
(* Outcomes: the variants of crate::http::Error, and Ok *)

Success == "Success"
Unauthorized == "Unauthorized"
Forbidden == "Forbidden"
NotFound == "NotFound"
UnprocessableEntity == "UnprocessableEntity"
Internal == "Internal"

\* `?` on a sqlx::Error in a handler: From<sqlx::Error> for Error (errors.rs)
ErrorFromSqlx(e) == Internal

\* ResultExt::on_constraint (errors.rs): a database error naming the
\* constraint becomes the given error, everything else is left as it is
OnConstraint(res, name, err) ==
    IF res.tag = "db" /\ res.constraint = name THEN [tag |-> "err", err |-> err]
    ELSE res

\* results of a sqlx fetch
Row(r) == [tag |-> "row", row |-> r]
RowNotFound == [tag |-> "RowNotFound"]
DbError(c) == [tag |-> "db", constraint |-> c]
IoError == [tag |-> "io"]

---------------------------------------------------------------------------
(* slugify *)

slugify(title) ==
    CASE title = "T 1" -> "t-1"
      [] title = "T 2" -> "t-2"

Slugs == {slugify(t) : t \in Titles}

coalesce(a, b) == IF a # None THEN a ELSE b

---------------------------------------------------------------------------
(* Time.  The clock counts ticks; timestamps are whole seconds.            *)

\* OffsetDateTime::unix_timestamp, jsonwebtoken's get_current_timestamp
UnixTimestamp(t) == t \div TicksPerSec

\* the instants the clock visits: the first and the last tick of the seconds
\* around the start, the leeway and the session length
SecondMarks ==
    {StartSec + b + d : b \in {0, Leeway, DEFAULT_SESSION_LENGTH,
                               DEFAULT_SESSION_LENGTH + Leeway},
                        d \in 0..MaxDrift}
Instants == {s * TicksPerSec + f : s \in SecondMarks, f \in {0, TicksPerSec - 1}}

---------------------------------------------------------------------------
(* TokenCodec: jsonwebtoken's encode / decode and the Claims methods.      *)
(* A JWT is its header's algorithm, its claims and its signature; the      *)
(* signature records the key that made it and what it was made over.       *)
(* Option<T> is a set with at most one element.                            *)

PublicKeyOf(private_key) ==
    CASE private_key = "priv1" -> "pub1"
      [] private_key = "priv2" -> "pub2"

Sign(alg, claims, key) == [key |-> key, alg |-> alg, claims |-> claims]

\* jsonwebtoken::encode(&Header::new(alg), &claims, &EncodingKey)
encode(alg, claims, private_key) ==
    [wf |-> TRUE, alg |-> alg, claims |-> claims,
     sig |-> Sign(alg, claims, private_key)]

\* mutant: expiry is not validated
ValidationNew_NoExp(alg) ==
    [algorithms |-> {alg}, leeway |-> Leeway, validate_exp |-> FALSE]

\* Validation::new(alg): that algorithm only, leeway 60 s, exp required and
\* validated
ValidationNew(alg) ==
    [algorithms |-> {alg}, leeway |-> Leeway, validate_exp |-> TRUE]

NoClaims == [sub |-> None, iat |-> 0, exp |-> 0]
Ok(claims) == [ok |-> TRUE, claims |-> claims, err |-> None]
Err(e) == [ok |-> FALSE, claims |-> NoClaims, err |-> e]

\* mutant: the signature is not verified
decode_NoSignatureCheck(jwt, public_key, validation, t) ==
    IF ~jwt.wf THEN Err("InvalidToken")
    ELSE IF jwt.alg \notin validation.algorithms THEN Err("InvalidAlgorithm")
    ELSE IF validation.validate_exp
            /\ jwt.claims.exp < UnixTimestamp(t) - validation.leeway
    THEN Err("ExpiredSignature")
    ELSE Ok(jwt.claims)

\* mutant: the signature is checked against the claims, under whatever key
\* made it
decode_AnyKey(jwt, public_key, validation, t) ==
    IF ~jwt.wf THEN Err("InvalidToken")
    ELSE IF jwt.alg \notin validation.algorithms THEN Err("InvalidAlgorithm")
    ELSE IF ~(jwt.sig.alg = jwt.alg /\ jwt.sig.claims = jwt.claims)
    THEN Err("InvalidSignature")
    ELSE IF validation.validate_exp
            /\ jwt.claims.exp < UnixTimestamp(t) - validation.leeway
    THEN Err("ExpiredSignature")
    ELSE Ok(jwt.claims)

\* jsonwebtoken::decode(jwt, &DecodingKey, &Validation) at time t: the token
\* parses, its algorithm is an allowed one, the signature is one the key's
\* private half made over this header and these claims, and exp is not
\* more than the leeway in the past (exp < now - leeway is ExpiredSignature)
decode(jwt, public_key, validation, t) ==
    IF ~jwt.wf THEN Err("InvalidToken")
    ELSE IF jwt.alg \notin validation.algorithms THEN Err("InvalidAlgorithm")
    ELSE IF ~(/\ PublicKeyOf(jwt.sig.key) = public_key
              /\ jwt.sig.alg = jwt.alg
              /\ jwt.sig.claims = jwt.claims)
    THEN Err("InvalidSignature")
    ELSE IF validation.validate_exp
            /\ jwt.claims.exp < UnixTimestamp(t) - validation.leeway
    THEN Err("ExpiredSignature")
    ELSE Ok(jwt.claims)

\* mutant: exp is rounded up to the next whole second
with_sub_to_jwt_ExpRoundedUp(sub, t) ==
    LET iat == UnixTimestamp(t)
        exp == UnixTimestamp(t + DEFAULT_SESSION_LENGTH * TicksPerSec + TicksPerSec - 1)
        claims == [sub |-> sub, iat |-> iat, exp |-> exp]
    IN  [visible |-> TRUE, scheme |-> SCHEME_PREFIX,
         jwt |-> encode("RS256", claims, rsa_private_key)]

\* Claims::with_sub_to_jwt at time t: the header value "Bearer <jwt>"
with_sub_to_jwt(sub, t) ==
    LET iat == UnixTimestamp(t)
        exp == UnixTimestamp(t + DEFAULT_SESSION_LENGTH * TicksPerSec)
        claims == [sub |-> sub, iat |-> iat, exp |-> exp]
    IN  [visible |-> TRUE, scheme |-> SCHEME_PREFIX,
         jwt |-> encode("RS256", claims, rsa_private_key)]

\* mutant: the decode error is passed on as it is, each kind its own answer
from_jwt_LeaksKind(jwt, t) ==
    LET r == decode(jwt, rsa_public_key, ValidationNew("RS256"), t)
    IN  IF r.ok THEN Ok(r.claims)
        ELSE Err(IF r.err = "InvalidSignature" THEN Unauthorized ELSE Internal)

\* mutant: a token is refused once a later one was issued for its sub
from_jwt_LatestOnly(jwt, t) ==
    LET r == decode(jwt, rsa_public_key, ValidationNew("RS256"), t)
    IN  IF r.ok /\ \A e \in issued :
                      e.sub = r.claims.sub => e.value.jwt.claims.iat <= r.claims.iat
        THEN Ok(r.claims)
        ELSE Err(Unauthorized)

\* Claims::from_jwt: every decode error becomes Error::Unauthorized
from_jwt(jwt, t) ==
    LET r == decode(jwt, rsa_public_key, ValidationNew("RS256"), t)
    IN  IF r.ok THEN Ok(r.claims) ELSE Err(Unauthorized)

\* str::strip_prefix on a header value
strip_prefix(value, prefix) ==
    IF value.scheme = prefix THEN {value.jwt} ELSE {}

---------------------------------------------------------------------------
(* AuthMiddleware.  authorization: Option<HeaderValue> of the request.     *)
(* The result says whether next.run was called, with which extension, and  *)
(* the response the middleware itself produced otherwise.                  *)

NextRun(ext) == [next |-> TRUE, ext |-> ext, resp |-> None]
Reject(e) == [next |-> FALSE, ext |-> {}, resp |-> e]

\* mutant: a value without the scheme prefix is taken as the token itself
auth_NoPrefixCheck(authorization, t) ==
    IF authorization = {} THEN Reject(Unauthorized)
    ELSE LET value == CHOOSE v \in authorization : TRUE IN
         IF ~value.visible THEN Reject(Unauthorized)
         ELSE LET claims == from_jwt(value.jwt, t) IN
              IF ~claims.ok THEN Reject(claims.err)
              ELSE NextRun({claims.claims})

\* auth: header, to_str, strip_prefix, from_jwt, each failing with
\* Unauthorized; then the Claims are inserted and next.run is called
auth(authorization, t) ==
    IF authorization = {} THEN Reject(Unauthorized)
    ELSE LET value == CHOOSE v \in authorization : TRUE IN
         IF ~value.visible THEN Reject(Unauthorized)
         ELSE LET jwt == strip_prefix(value, SCHEME_PREFIX) IN
              IF jwt = {} THEN Reject(Unauthorized)
              ELSE LET claims == from_jwt(CHOOSE j \in jwt : TRUE, t) IN
                   IF ~claims.ok THEN Reject(claims.err)
                   ELSE NextRun({claims.claims})

\* maybe_auth: headers().get(..).ok_or(Unauthorized).and_then(..)? fails
\* on a missing header; with a header, to_str().ok(), strip_prefix and
\* from_jwt(..).ok() give Option<Claims>, which is inserted
maybe_auth(authorization, t) ==
    IF authorization = {} THEN Reject(Unauthorized)
    ELSE LET value == CHOOSE v \in authorization : TRUE
             jwt == IF value.visible THEN strip_prefix(value, SCHEME_PREFIX) ELSE {}
             claims == IF jwt = {} THEN Err(Unauthorized)
                       ELSE from_jwt(CHOOSE j \in jwt : TRUE, t)
         IN  NextRun(IF claims.ok THEN {claims.claims} ELSE {})

---------------------------------------------------------------------------
(* What a client can put in the Authorization header: a token the server   *)
(* issued, or something made from one without the server's private key.    *)

OtherUser(u) == CHOOSE v \in Users : v # u

Forgeries(jwt) ==
    {[jwt EXCEPT !.claims.sub = OtherUser(jwt.claims.sub)],
     [jwt EXCEPT !.claims.exp = jwt.claims.exp + DEFAULT_SESSION_LENGTH],
     encode("RS256", jwt.claims, "priv2"),
     encode("RS256", [sub |-> OtherUser(jwt.claims.sub), iat |-> jwt.claims.iat + 1,
                      exp |-> jwt.claims.exp + DEFAULT_SESSION_LENGTH], "priv2"),
     encode("HS256", jwt.claims, rsa_public_key),
     [jwt EXCEPT !.wf = FALSE]}

IssuedJwts == {e.value.jwt : e \in issued}

HeaderValues ==
    LET jwts == IssuedJwts \cup UNION {Forgeries(j) : j \in IssuedJwts}
    IN  {[visible |-> TRUE, scheme |-> sc, jwt |-> j] :
            sc \in {SCHEME_PREFIX, ""}, j \in jwts}
        \cup {[visible |-> FALSE, scheme |-> SCHEME_PREFIX, jwt |-> j] : j \in IssuedJwts}

IdleMw ==
    [pc |-> "idle", kind |-> None, authorization |-> {}, at |-> 0,
     next |-> FALSE, ext |-> {}, resp |-> None]

\* the clock moves on
Tick ==
    /\ \E t \in Instants : t > now /\ now' = t
    /\ UNCHANGED <<issued, mw>>
    /\ UNCHANGED <<guardVars, credVars, userVars>>

\* a users.rs handler (create_user, login_user, get_current_user,
\* update_user) puts Claims::with_sub_to_jwt(user_id, &state) in its response
IssueToken ==
    /\ Cardinality(issued) < MaxIssued
    /\ \E sub \in Users :
         issued' = issued \cup {[value |-> with_sub_to_jwt(sub, now), sub |-> sub]}
    /\ UNCHANGED <<now, mw>>
    /\ UNCHANGED <<guardVars, credVars, userVars>>

Finished(kind, authorization, r) ==
    [pc |-> IF r.next THEN "handler" ELSE "rejected", kind |-> kind,
     authorization |-> authorization, at |-> now,
     next |-> r.next, ext |-> r.ext, resp |-> r.resp]

\* a request to a route behind auth::auth arrives
RunAuth ==
    /\ mw.pc = "idle"
    /\ \E authorization \in {{}} \cup {{h} : h \in HeaderValues} :
         mw' = Finished("auth", authorization, auth(authorization, now))
    /\ UNCHANGED <<now, issued>>
    /\ UNCHANGED <<guardVars, credVars, userVars>>

\* a request to a route behind auth::maybe_auth arrives
RunMaybeAuth ==
    /\ mw.pc = "idle"
    /\ \E authorization \in {{}} \cup {{h} : h \in HeaderValues} :
         mw' = Finished("maybe_auth", authorization, maybe_auth(authorization, now))
    /\ UNCHANGED <<now, issued>>
    /\ UNCHANGED <<guardVars, credVars, userVars>>

\* the handler's (or the middleware's own) response is sent
Finish ==
    /\ mw.pc # "idle"
    /\ mw' = IdleMw
    /\ UNCHANGED <<now, issued>>
    /\ UNCHANGED <<guardVars, credVars, userVars>>

AuthInit ==
    /\ now = StartSec * TicksPerSec
    /\ issued = {}
    /\ mw = IdleMw

---------------------------------------------------------------------------
(* CredentialHasher: hash_password and verify_password of users.rs.        *)
(* A stored credential is a PHC string: whether it parses, the algorithm   *)
(* it names, the salt and the hash.  Argon2 is taken as a perfect hash:    *)
(* its output stands for exactly the (password, salt) it was made from.    *)
(* thread_rng is taken as a perfect generator: no salt is drawn twice.     *)

Argon2Hash(password, salt) == [password |-> password, salt |-> salt]

\* SaltString::generate(rand::thread_rng()) when r salts were drawn before
SaltStringGenerate(r) == r + 1

\* PasswordHash::generate(Argon2::default(), password, &salt).to_string()
PasswordHashGenerate(password, salt) ==
    [wf |-> TRUE, alg |-> "argon2id", salt |-> salt, hash |-> Argon2Hash(password, salt)]

NoHash == [wf |-> FALSE, alg |-> None, salt |-> 0, hash |-> Argon2Hash(None, 0)]

\* `?` / .into() on an anyhow::Error: From<anyhow::Error> for Error (errors.rs)
ErrorFromAnyhow(e) == Internal

\* mutant: the salt is a fixed one
hash_password_FixedSalt(password, r) ==
    PasswordHashGenerate(password, 0)

\* hash_password: a fresh salt, then the PHC string of the Argon2 hash
hash_password(password, r) ==
    PasswordHashGenerate(password, SaltStringGenerate(r))

\* mutant: every error of the verification is answered as Unauthorized
verify_password_AllUnauthorized(password, password_hash) ==
    IF /\ password_hash.wf
       /\ password_hash.alg = "argon2id"
       /\ Argon2Hash(password, password_hash.salt) = password_hash.hash
    THEN Success
    ELSE Unauthorized

\* verify_password: PasswordHash::new fails on a string that is not a PHC
\* string; hash.verify_password(&[&Argon2::default()], password) fails with
\* Error::Password when the recomputed hash differs, with another error
\* when the string names an algorithm Argon2 does not implement
verify_password(password, password_hash) ==
    IF ~password_hash.wf THEN ErrorFromAnyhow("invalid password hash")
    ELSE IF password_hash.alg # "argon2id"
    THEN ErrorFromAnyhow("failed to verify password hash")
    ELSE IF Argon2Hash(password, password_hash.salt) # password_hash.hash
    THEN Unauthorized
    ELSE Success

\* stored strings no call of hash_password returns: a damaged one, and one
\* in the PHC format of another algorithm
Corrupted(password_hash) ==
    {[password_hash EXCEPT !.wf = FALSE], [password_hash EXCEPT !.alg = "scrypt"]}

StoredStrings ==
    {h.out : h \in hashed} \cup UNION {Corrupted(h.out) : h \in hashed}

\* hash_password is called
HashPassword ==
    /\ rng < MaxDraws
    /\ \E password \in Passwords :
         hashed' = hashed \cup {[call |-> rng + 1, password |-> password,
                                 out |-> hash_password(password, rng)]}
    /\ rng' = rng + 1
    /\ UNCHANGED <<vp, guardVars, authVars, userVars>>

\* verify_password is called
VerifyPassword ==
    /\ \E password \in Passwords, password_hash \in StoredStrings :
         vp' = [password |-> password, password_hash |-> password_hash,
                out |-> verify_password(password, password_hash)]
    /\ UNCHANGED <<rng, hashed, guardVars, authVars, userVars>>

(* The handlers of users.rs and the table "user".  A row: user_id,         *)
(* username, email, password_hash (bio and image are not modelled; they    *)
(* take part in no decision).  An absent Option field of a body is None.   *)

\* uuid default of "user".user_id: an id no row has
NewUserId(usr) == CHOOSE id \in Users : \A u \in usr : u.user_id # id

\* insert into "user" (username, email, password_hash) values ($1, $2, $3)
\* returning user_id; username and email are unique
InsertUserStmt(usr, username, email, password_hash) ==
    IF \E u \in usr : u.username = username
    THEN [res |-> DbError("user_username_key"), user |-> usr]
    ELSE IF \E u \in usr : u.email = email
    THEN [res |-> DbError("user_email_key"), user |-> usr]
    ELSE LET row == [user_id |-> NewUserId(usr), username |-> username,
                     email |-> email, password_hash |-> password_hash]
         IN  [res |-> Row(row), user |-> usr \cup {row}]

\* select ... from "user" where email = $1; fetch_optional
SelectUserByEmailStmt(usr, email) == {u \in usr : u.email = email}

\* select ... from "user" where user_id = $1; fetch_one
SelectUserByIdStmt(usr, user_id) ==
    LET found == {u \in usr : u.user_id = user_id}
    IN  IF found = {} THEN RowNotFound ELSE Row(CHOOSE u \in found : TRUE)

\* update "user" set email = coalesce($1, email), username = coalesce($2,
\* username), password_hash = coalesce($3, password_hash), ... where
\* user_id = $6 returning ...; fetch_one.  hashes: Option of the new hash.
UpdateUserStmt(usr, email, username, hashes, user_id) ==
    LET target == {u \in usr : u.user_id = user_id}
        upd(u) == [u EXCEPT !.email = coalesce(email, u.email),
                            !.username = coalesce(username, u.username),
                            !.password_hash = IF hashes = {} THEN u.password_hash
                                              ELSE CHOOSE h \in hashes : TRUE]
        updated == {upd(u) : u \in target}
        rest == usr \ target
    IN  IF \E u \in updated : \E r \in rest : r.username = u.username
        THEN [res |-> DbError("user_username_key"), user |-> usr]
        ELSE IF \E u \in updated : \E r \in rest : r.email = u.email
        THEN [res |-> DbError("user_email_key"), user |-> usr]
        ELSE IF updated = {}
        THEN [res |-> RowNotFound, user |-> usr]
        ELSE [res |-> Row(CHOOSE u \in updated : TRUE), user |-> rest \cup updated]

\* a handler's result: the outcome, the table afterwards, the token in the
\* response body (with the sub it was made for), the salts drawn
UserReply(out, usr, token, drawn) ==
    [out |-> out, user |-> usr, token |-> token, drawn |-> drawn]
TokenFor(sub, t) == {[value |-> with_sub_to_jwt(sub, t), sub |-> sub]}

\* the two on_constraint calls of create_user and update_user, then `?`
UserConstraints(res) ==
    OnConstraint(OnConstraint(res, "user_username_key", UnprocessableEntity),
                 "user_email_key", UnprocessableEntity)
UserError(res) == IF res.tag = "err" THEN res.err ELSE ErrorFromSqlx(res)

create_user(usr, r, t, username, email, password, fail) ==
    LET password_hash == hash_password(password, r)
        stmt == IF fail THEN [res |-> IoError, user |-> usr]
                ELSE InsertUserStmt(usr, username, email, password_hash)
        res == UserConstraints(stmt.res)
    IN  IF res.tag = "row"
        THEN UserReply(Success, stmt.user, TokenFor(res.row.user_id, t), 1)
        ELSE UserReply(UserError(res), stmt.user, {}, 1)

\* mutant: the password is not verified
login_user_NoVerify(usr, t, email, password, fail) ==
    IF fail THEN UserReply(ErrorFromSqlx(IoError), usr, {}, 0)
    ELSE LET found == SelectUserByEmailStmt(usr, email) IN
         IF found = {} THEN UserReply(UnprocessableEntity, usr, {}, 0)
         ELSE LET row == CHOOSE u \in found : TRUE
              IN  UserReply(Success, usr, TokenFor(row.user_id, t), 0)

login_user(usr, t, email, password, fail) ==
    IF fail THEN UserReply(ErrorFromSqlx(IoError), usr, {}, 0)
    ELSE LET found == SelectUserByEmailStmt(usr, email) IN
         IF found = {} THEN UserReply(UnprocessableEntity, usr, {}, 0)
         ELSE LET row == CHOOSE u \in found : TRUE
                  verified == verify_password(password, row.password_hash)
              IN  IF verified # Success THEN UserReply(verified, usr, {}, 0)
                  ELSE UserReply(Success, usr, TokenFor(row.user_id, t), 0)

get_current_user(usr, t, claims, fail) ==
    LET res == IF fail THEN IoError ELSE SelectUserByIdStmt(usr, claims.sub)
    IN  IF res.tag = "row" THEN UserReply(Success, usr, TokenFor(claims.sub, t), 0)
        ELSE UserReply(ErrorFromSqlx(res), usr, {}, 0)

UpdateUserDefault == [email |-> None, username |-> None, password |-> None, bio |-> None]
\* the bodies a client sends: the empty one, and those with one field
UpdateUserBodies ==
    {UpdateUserDefault}
    \cup {[UpdateUserDefault EXCEPT !.email = e] : e \in Emails}
    \cup {[UpdateUserDefault EXCEPT !.username = u] : u \in Usernames}
    \cup {[UpdateUserDefault EXCEPT !.password = p] : p \in Passwords}
    \cup {[UpdateUserDefault EXCEPT !.bio = "bio"]}

update_user(usr, r, t, claims, body, fail) ==
    IF body = UpdateUserDefault THEN get_current_user(usr, t, claims, fail)
    ELSE LET hashes == IF body.password # None THEN {hash_password(body.password, r)}
                       ELSE {}
             stmt == IF fail THEN [res |-> IoError, user |-> usr]
                     ELSE UpdateUserStmt(usr, body.email, body.username, hashes, claims.sub)
             res == UserConstraints(stmt.res)
         IN  IF res.tag = "row"
             THEN UserReply(Success, stmt.user, TokenFor(claims.sub, t), Cardinality(hashes))
             ELSE UserReply(UserError(res), stmt.user, {}, Cardinality(hashes))

\* what a client of the routes behind auth::auth presents: nothing, or a
\* header value from an earlier response
Presented == {{}} \cup {{e.value} : e \in issued}

NoRequest ==
    [op |-> None, email |-> None, password |-> None, fail |-> FALSE,
     out |-> None, token |-> {}]

\* the log of issued tokens keeps the first MaxLogged of them
Logged(token) == IF Cardinality(issued) < MaxLogged THEN issued \cup token ELSE issued

\* the handler's effects take place and its response is sent; email and
\* password are the ones in the request body
Served(op, email, password, fail, reply) ==
    /\ user' = reply.user
    /\ rng' = rng + reply.drawn
    /\ issued' = Logged(reply.token)
    /\ ulast' = [op |-> op, email |-> email, password |-> password, fail |-> fail,
                 out |-> reply.out, token |-> reply.token]

\* POST /api/users
CreateUser ==
    /\ rng < MaxDraws
    /\ \E username \in Usernames, email \in Emails, password \in Passwords,
          fail \in BOOLEAN :
         Served("create_user", email, password, fail,
                create_user(user, rng, now, username, email, password, fail))
    /\ UNCHANGED <<now, mw, hashed, vp, guardVars>>

\* POST /api/users/login
LoginUser ==
    /\ \E email \in Emails, password \in Passwords, fail \in BOOLEAN :
         Served("login_user", email, password, fail,
                login_user(user, now, email, password, fail))
    /\ UNCHANGED <<now, mw, hashed, vp, guardVars>>

\* the clock moves on while the first sessions are young
UsersTick ==
    /\ Tick
    /\ now' <= (StartSec + MaxDrift) * TicksPerSec

\* GET /api/user, behind auth::auth
GetCurrentUser ==
    /\ \E authorization \in Presented, fail \in BOOLEAN :
         LET a == auth(authorization, now) IN
         IF ~a.next
         THEN Served("get_current_user", None, None, FALSE, UserReply(a.resp, user, {}, 0))
         ELSE Served("get_current_user", None, None, fail,
                     get_current_user(user, now, CHOOSE c \in a.ext : TRUE, fail))
    /\ UNCHANGED <<now, mw, hashed, vp, guardVars>>

\* PUT /api/user, behind auth::auth
UpdateUser ==
    /\ \E authorization \in Presented, body \in UpdateUserBodies, fail \in BOOLEAN :
         /\ body.password # None => rng < MaxDraws
         /\ LET a == auth(authorization, now) IN
            IF ~a.next
            THEN Served("update_user", None, None, FALSE, UserReply(a.resp, user, {}, 0))
            ELSE Served("update_user", body.email, body.password, fail,
                        update_user(user, rng, now, CHOOSE c \in a.ext : TRUE, body, fail))
    /\ UNCHANGED <<now, mw, hashed, vp, guardVars>>

CredInit ==
    /\ rng = 0
    /\ hashed = {}
    /\ vp = [password |-> None, password_hash |-> NoHash, out |-> None]

UserInit ==
    /\ user = {}
    /\ ulast = NoRequest

---------------------------------------------------------------------------

(* The SQL statements, as functions of the tables they run against.        *)
(* art, com: the tables as the statement's snapshot sees them.             *)

\* mutant: the delete is restricted by the slug alone
DeleteArticleStmt_NoOwnerFilter(art, com, slug, sub) ==
    LET deleted_article == {r \in art : r.slug = slug}
    IN  [existed |-> \E r \in art : r.slug = slug,
         deleted |-> deleted_article # {},
         article |-> art \ deleted_article,
         comment |-> {c \in com : \A d \in deleted_article :
                                     c.article_id # d.article_id}]

\* mutant: the row named by the slug is deleted, and "deleted!" then says
\* whether it was the caller's
DeleteArticleStmt_DeleteThenCheck(art, com, slug, sub) ==
    LET deleted_article == {r \in art : r.slug = slug}
    IN  [existed |-> \E r \in art : r.slug = slug,
         deleted |-> \E r \in deleted_article : r.user_id = sub,
         article |-> art \ deleted_article,
         comment |-> {c \in com : \A d \in deleted_article :
                                     c.article_id # d.article_id}]

\* mutant: "existed!" is evaluated after the delete has taken effect
DeleteArticleStmt_ExistedAfterDelete(art, com, slug, sub) ==
    LET deleted_article == {r \in art : r.slug = slug /\ r.user_id = sub}
    IN  [existed |-> \E r \in art \ deleted_article : r.slug = slug,
         deleted |-> deleted_article # {},
         article |-> art \ deleted_article,
         comment |-> {c \in com : \A d \in deleted_article :
                                     c.article_id # d.article_id}]

\* delete_article: with deleted_article as (delete ... where slug = $1 and
\* user_id = $2 returning 1) select exists(... where slug = $1) "existed!",
\* exists(select 1 from deleted_article) "deleted!".  The outer select reads
\* the snapshot, so the deleted row still counts for "existed!".  The table
\* definitions (migrations) are not among the sources; the comments of a
\* deleted article are taken to go with it (article_comment.article_id
\* references article on delete cascade).
DeleteArticleStmt(art, com, slug, sub) ==
    LET deleted_article == {r \in art : r.slug = slug /\ r.user_id = sub}
    IN  [existed |-> \E r \in art : r.slug = slug,
         deleted |-> deleted_article # {},
         article |-> art \ deleted_article,
         comment |-> {c \in com : \A d \in deleted_article :
                                     c.article_id # d.article_id}]

\* mutant: the statement selects the caller's comment instead of deleting it
DeleteCommentStmt_KeepsRow(art, com, slug, comment_id, sub) ==
    LET deleted_comment ==
            {c \in com : /\ c.comment_id = comment_id
                         /\ \E a \in art : a.slug = slug /\ c.article_id = a.article_id
                         /\ c.user_id = sub}
    IN  [existed |-> \E c \in com : \E a \in art :
                        /\ c.article_id = a.article_id
                        /\ c.comment_id = comment_id
                        /\ a.slug = slug,
         deleted |-> deleted_comment # {},
         article |-> art,
         comment |-> com]

\* mutant: the delete is restricted by comment_id and user_id alone
DeleteCommentStmt_IgnoresSlug(art, com, slug, comment_id, sub) ==
    LET deleted_comment ==
            {c \in com : c.comment_id = comment_id /\ c.user_id = sub}
    IN  [existed |-> \E c \in com : \E a \in art :
                        /\ c.article_id = a.article_id
                        /\ c.comment_id = comment_id
                        /\ a.slug = slug,
         deleted |-> deleted_comment # {},
         article |-> art,
         comment |-> com \ deleted_comment]

\* delete_comment: the delete is restricted by comment_id, by the article the
\* slug names and by user_id; "existed!" joins article_comment with article on
\* comment_id and slug alone.
DeleteCommentStmt(art, com, slug, comment_id, sub) ==
    LET deleted_comment ==
            {c \in com : /\ c.comment_id = comment_id
                         /\ \E a \in art : a.slug = slug /\ c.article_id = a.article_id
                         /\ c.user_id = sub}
    IN  [existed |-> \E c \in com : \E a \in art :
                        /\ c.article_id = a.article_id
                        /\ c.comment_id = comment_id
                        /\ a.slug = slug,
         deleted |-> deleted_comment # {},
         article |-> art,
         comment |-> com \ deleted_comment]

\* update_article: permission_check selects the row by slug and user_id; the
\* update touches the row named by the slug only if permission_check is not
\* empty; the outer select returns the updated row (joined with the caller's
\* user row), so fetch_one sees RowNotFound when nothing was updated.  A new
\* slug equal to another row's slug violates article_slug_key.
UpdateArticleStmt(art, slug, sub, new_slug, title) ==
    LET permission_check == {r \in art : r.slug = slug /\ r.user_id = sub}
        target == {r \in art : r.slug = slug /\ permission_check # {}}
        upd(r) == [r EXCEPT !.slug = coalesce(new_slug, r.slug),
                            !.title = coalesce(title, r.title)]
        updated_article == {upd(r) : r \in target}
        rest == art \ target
    IN  IF \E u \in updated_article : \E r \in rest : r.slug = u.slug
        THEN [res |-> DbError("article_slug_key"), article |-> art]
        ELSE IF updated_article = {}
        THEN [res |-> RowNotFound, article |-> art]
        ELSE [res |-> Row(CHOOSE u \in updated_article : TRUE),
              article |-> rest \cup updated_article]

\* create_article: insert into article ... returning; slug is unique.
CreateArticleStmt(art, id, sub, slug, title) ==
    IF \E r \in art : r.slug = slug
    THEN [res |-> DbError("article_slug_key"), article |-> art]
    ELSE LET row == [article_id |-> id, user_id |-> sub, slug |-> slug, title |-> title]
         IN  [res |-> Row(row), article |-> art \cup {row}]

\* add_comment: insert into article_comment select article_id, $1, $2 from
\* article where slug = $3 returning ...; fetch_optional.
AddCommentStmt(art, com, id, sub, slug) ==
    LET inserted_comment ==
            {[comment_id |-> id, article_id |-> a.article_id, user_id |-> sub] :
                a \in {r \in art : r.slug = slug}}
    IN  [res |-> IF inserted_comment = {} THEN RowNotFound
                 ELSE Row(CHOOSE c \in inserted_comment : TRUE),
         comment |-> com \cup inserted_comment]

---------------------------------------------------------------------------
(* The handlers: statement, then the classification of its result.         *)
(* fail: the store could not execute the statement (connection lost, ...)  *)

\* mutant: every failed delete is reported as Forbidden
delete_article_outcome_NoNotFound(result) ==
    IF result.deleted THEN Success ELSE Forbidden

\* the if / else-if / else at the end of delete_article
delete_article_outcome(result) ==
    IF result.deleted THEN Success
    ELSE IF result.existed THEN Forbidden
    ELSE NotFound

delete_article(art, com, slug, sub, fail) ==
    IF fail THEN [out |-> ErrorFromSqlx(IoError), article |-> art, comment |-> com]
    ELSE LET result == DeleteArticleStmt(art, com, slug, sub)
         IN  [out |-> delete_article_outcome(result),
              article |-> result.article, comment |-> result.comment]

\* mutant: "existed" is tested before "deleted"
delete_comment_outcome_ExistedFirst(result) ==
    IF result.existed THEN Forbidden
    ELSE IF result.deleted THEN Success
    ELSE NotFound

\* the if / else-if / else at the end of delete_comment
delete_comment_outcome(result) ==
    IF result.deleted THEN Success
    ELSE IF result.existed THEN Forbidden
    ELSE NotFound

delete_comment(art, com, slug, comment_id, sub, fail) ==
    IF fail THEN [out |-> ErrorFromSqlx(IoError), article |-> art, comment |-> com]
    ELSE LET result == DeleteCommentStmt(art, com, slug, comment_id, sub)
         IN  [out |-> delete_comment_outcome(result),
              article |-> result.article, comment |-> result.comment]

\* .map_err(|e| match e { Error::UnprocessableEntity{..} => e, _ => Error::Forbidden })
update_article_map_err(e) ==
    IF e = UnprocessableEntity THEN e ELSE Forbidden

update_article(art, com, slug, sub, title, fail) ==
    LET new_slug == IF title = None THEN None ELSE slugify(title)
        stmt == IF fail THEN [res |-> IoError, article |-> art]
                ELSE UpdateArticleStmt(art, slug, sub, new_slug, title)
        res == OnConstraint(stmt.res, "article_slug_key", UnprocessableEntity)
    IN  [out |-> CASE res.tag = "row" -> Success
                   [] res.tag = "err" -> update_article_map_err(res.err)
                   [] OTHER -> update_article_map_err(ErrorFromSqlx(res)),
         article |-> stmt.article, comment |-> com]

create_article(art, com, id, sub, title, fail) ==
    LET slug == slugify(title)
        stmt == IF fail THEN [res |-> IoError, article |-> art]
                ELSE CreateArticleStmt(art, id, sub, slug, title)
        res == OnConstraint(stmt.res, "article_slug_key", UnprocessableEntity)
    IN  [out |-> CASE res.tag = "row" -> Success
                   [] res.tag = "err" -> res.err
                   [] OTHER -> ErrorFromSqlx(res),
         article |-> stmt.article, comment |-> com]

add_comment(art, com, id, sub, slug, fail) ==
    LET stmt == IF fail THEN [res |-> IoError, comment |-> com]
                ELSE AddCommentStmt(art, com, id, sub, slug)
    IN  [out |-> CASE stmt.res.tag = "row" -> Success
                   [] stmt.res.tag = "RowNotFound" -> NotFound
                   [] OTHER -> ErrorFromSqlx(stmt.res),
         article |-> art, comment |-> stmt.comment]

---------------------------------------------------------------------------
(* Requests.  A worker takes a request whose extractors have run (the path *)
(* parameters, the JSON body and the Claims that the auth middleware       *)
(* attached), runs its handler, and sends the response.  The fields        *)
(* fail .. seen are history: fail, the store failed; existed, owner, id,   *)
(* the row the request's key named when the statement ran; post, what      *)
(* became of that row; hist, the key's past; seen, the requests that were  *)
(* in flight together with this one.                                       *)

IdleReq ==
    [pc |-> "idle", op |-> None, sub |-> None, slug |-> None, cid |-> 0,
     title |-> None, out |-> None, fail |-> FALSE, existed |-> FALSE,
     owner |-> None, id |-> 0, post |-> None, hist |-> None, seen |-> {}]

NewReq(op, sub, slug, cid, title, seen) ==
    [IdleReq EXCEPT !.pc = "ready", !.op = op, !.sub = sub, !.slug = slug,
                    !.cid = cid, !.title = title, !.seen = seen]

InFlight(op) == Cardinality({w \in Workers : req[w].pc = "ready" /\ req[w].op = op})

\* the article row a slug names, the comment row a (slug, comment_id) names
ArticleAt(art, slug) == {r \in art : r.slug = slug}
CommentAt(art, com, slug, cid) ==
    {c \in com : c.comment_id = cid
                 /\ \E a \in art : a.slug = slug /\ a.article_id = c.article_id}

HistOfSlug(slug) ==
    IF slug \notin created THEN "never"
    ELSE IF slug \in gone THEN "gone" ELSE "live"

HistOfComment(cid) ==
    IF cid >= nextCommentId THEN "never"
    ELSE IF cid \in goneComments THEN "gone" ELSE "live"

\* the request of worker w after its handler ran on target row set `rows`
\* (at most one row) and left `after`, the rows with the same primary key
Done(w, out, fail, rows, key, after, hist) ==
    [req[w] EXCEPT !.pc = "done", !.out = out, !.fail = fail,
                   !.existed = (rows # {}),
                   !.owner = IF rows = {} THEN None
                             ELSE (CHOOSE r \in rows : TRUE).user_id,
                   !.id = IF rows = {} THEN 0 ELSE key,
                   !.post = IF rows = {} THEN None
                            ELSE IF after = {} THEN "removed"
                            ELSE IF after = rows THEN "same" ELSE "changed",
                   !.hist = hist]

Receive(w) ==
    /\ req[w].pc = "idle"
    /\ received < MaxRequests
    /\ received' = received + 1
    /\ \E sub \in Users :
         LET seen == {v \in Workers : req[v].pc = "ready"} IN
         \/ \E title \in Titles :
              /\ nextArticleId + InFlight("create_article") <= MaxArticles
              /\ req' = [req EXCEPT ![w] = NewReq("create_article", sub, None, 0, title, seen)]
         \/ \E slug \in Slugs, title \in Titles \cup {None} :
              req' = [req EXCEPT ![w] = NewReq("update_article", sub, slug, 0, title, seen)]
         \/ \E slug \in Slugs :
              req' = [req EXCEPT ![w] = NewReq("delete_article", sub, slug, 0, None, seen)]
         \/ \E slug \in Slugs :
              /\ nextCommentId + InFlight("add_comment") <= MaxComments
              /\ req' = [req EXCEPT ![w] = NewReq("add_comment", sub, slug, 0, None, seen)]
         \/ \E slug \in Slugs, cid \in 1..MaxComments :
              req' = [req EXCEPT ![w] = NewReq("delete_comment", sub, slug, cid, None, seen)]
    /\ UNCHANGED <<article, comment, nextArticleId, nextCommentId, created, gone,
                   goneComments>>
    /\ UNCHANGED <<authVars, credVars, userVars>>

CreateArticle(w) ==
    /\ req[w].pc = "ready" /\ req[w].op = "create_article"
    /\ \E fail \in BOOLEAN :
         LET r == create_article(article, comment, nextArticleId, req[w].sub,
                                 req[w].title, fail)
             slug == slugify(req[w].title)
         IN  /\ article' = r.article
             /\ comment' = r.comment
             /\ nextArticleId' = IF r.out = Success THEN nextArticleId + 1
                                 ELSE nextArticleId
             /\ created' = IF r.out = Success THEN created \cup {slug} ELSE created
             /\ gone' = IF r.out = Success THEN gone \ {slug} ELSE gone
             /\ req' = [req EXCEPT ![w] =
                          Done(w, r.out, fail, {}, 0, {}, HistOfSlug(slug))]
    /\ UNCHANGED <<nextCommentId, goneComments, received>>
    /\ UNCHANGED <<authVars, credVars, userVars>>

UpdateArticle(w) ==
    /\ req[w].pc = "ready" /\ req[w].op = "update_article"
    /\ \E fail \in BOOLEAN :
         LET r == update_article(article, comment, req[w].slug, req[w].sub,
                                 req[w].title, fail)
             rows == ArticleAt(article, req[w].slug)
             key == IF rows = {} THEN 0 ELSE (CHOOSE x \in rows : TRUE).article_id
             after == {x \in r.article : x.article_id = key}
             renamed == {x.slug : x \in after} \ {req[w].slug}
         IN  /\ article' = r.article
             /\ comment' = r.comment
             /\ created' = IF r.out = Success THEN created \cup renamed ELSE created
             /\ gone' = IF r.out = Success THEN gone \ renamed ELSE gone
             /\ req' = [req EXCEPT ![w] =
                          Done(w, r.out, fail, rows, key, after, HistOfSlug(req[w].slug))]
    /\ UNCHANGED <<nextArticleId, nextCommentId, goneComments, received>>
    /\ UNCHANGED <<authVars, credVars, userVars>>

DeleteArticle(w) ==
    /\ req[w].pc = "ready" /\ req[w].op = "delete_article"
    /\ \E fail \in BOOLEAN :
         LET r == delete_article(article, comment, req[w].slug, req[w].sub, fail)
             rows == ArticleAt(article, req[w].slug)
             key == IF rows = {} THEN 0 ELSE (CHOOSE x \in rows : TRUE).article_id
             after == {x \in r.article : x.article_id = key}
         IN  /\ article' = r.article
             /\ comment' = r.comment
             /\ gone' = IF r.out = Success THEN gone \cup {req[w].slug} ELSE gone
             /\ req' = [req EXCEPT ![w] =
                          Done(w, r.out, fail, rows, key, after, HistOfSlug(req[w].slug))]
    /\ UNCHANGED <<nextArticleId, nextCommentId, created, goneComments, received>>
    /\ UNCHANGED <<authVars, credVars, userVars>>

AddComment(w) ==
    /\ req[w].pc = "ready" /\ req[w].op = "add_comment"
    /\ \E fail \in BOOLEAN :
         LET r == add_comment(article, comment, nextCommentId, req[w].sub,
                              req[w].slug, fail)
         IN  /\ article' = r.article
             /\ comment' = r.comment
             /\ nextCommentId' = IF r.out = Success THEN nextCommentId + 1
                                 ELSE nextCommentId
             /\ req' = [req EXCEPT ![w] =
                          Done(w, r.out, fail, {}, 0, {}, HistOfSlug(req[w].slug))]
    /\ UNCHANGED <<nextArticleId, created, gone, goneComments, received>>
    /\ UNCHANGED <<authVars, credVars, userVars>>

DeleteComment(w) ==
    /\ req[w].pc = "ready" /\ req[w].op = "delete_comment"
    /\ \E fail \in BOOLEAN :
         LET r == delete_comment(article, comment, req[w].slug, req[w].cid,
                                 req[w].sub, fail)
             rows == CommentAt(article, comment, req[w].slug, req[w].cid)
             after == {x \in r.comment : x.comment_id = req[w].cid}
         IN  /\ article' = r.article
             /\ comment' = r.comment
             /\ goneComments' = IF r.out = Success THEN goneComments \cup {req[w].cid}
                                ELSE goneComments
             /\ req' = [req EXCEPT ![w] =
                          Done(w, r.out, fail, rows, req[w].cid, after,
                               HistOfComment(req[w].cid))]
    /\ UNCHANGED <<nextArticleId, nextCommentId, created, gone, received>>
    /\ UNCHANGED <<authVars, credVars, userVars>>

\* the response is sent; requests that saw this one in flight forget it
Respond(w) ==
    /\ req[w].pc = "done"
    /\ req' = [v \in Workers |->
                 IF v = w THEN IdleReq
                 ELSE [req[v] EXCEPT !.seen = req[v].seen \ {w}]]
    /\ UNCHANGED <<article, comment, nextArticleId, nextCommentId, created, gone,
                   goneComments, received>>
    /\ UNCHANGED <<authVars, credVars, userVars>>

GuardInit ==
    /\ article = {}
    /\ comment = {}
    /\ nextArticleId = 1
    /\ nextCommentId = 1
    /\ req = [w \in Workers |-> IdleReq]
    /\ received = 0
    /\ created = {}
    /\ gone = {}
    /\ goneComments = {}

Init == GuardInit /\ AuthInit /\ CredInit /\ UserInit

GuardNext ==
    \E w \in Workers :
        \/ Receive(w)
        \/ CreateArticle(w)
        \/ UpdateArticle(w)
        \/ DeleteArticle(w)
        \/ AddComment(w)
        \/ DeleteComment(w)
        \/ Respond(w)

SpecGuard == Init /\ [][GuardNext]_vars

AuthNext ==
    \/ Tick
    \/ IssueToken
    \/ RunAuth
    \/ RunMaybeAuth
    \/ Finish

SpecAuth == Init /\ [][AuthNext]_vars

CredNext ==
    \/ HashPassword
    \/ VerifyPassword

SpecCred == Init /\ [][CredNext]_vars

UsersNext ==
    \/ UsersTick
    \/ CreateUser
    \/ LoginUser
    \/ GetCurrentUser
    \/ UpdateUser

SpecUsers == Init /\ [][UsersNext]_vars

---------------------------------------------------------------------------
(* OwnershipGuard: claims C1 .. C5 *)

DoneReqs == {w \in Workers : req[w].pc = "done"}
Deletes == {"delete_article", "delete_comment"}
Guarded == Deletes \cup {"update_article"}
Overlap(w, v) == w \in req[v].seen \/ v \in req[w].seen

\* C1: a delete_article, delete_comment or update_article request whose key
\* names a row owned by somebody else than the caller (claims.sub) never ends
\* in Success, and that row is the same after the request, whatever other
\* requests were in flight.
C1_NonOwnerNeverMutates ==
    \A w \in DoneReqs :
        (req[w].op \in Guarded /\ req[w].existed /\ req[w].owner # req[w].sub)
            => (req[w].out # Success /\ req[w].post = "same")

C1_Witness ==
    \E w \in DoneReqs : \E v \in Workers \ {w} :
        /\ req[w].op \in Guarded /\ req[w].existed /\ req[w].owner # req[w].sub
        /\ req[w].out = Forbidden
        /\ v \in req[w].seen

\* C2: when the store executes the statement, a delete returns NotFound
\* exactly when no row has the key, Forbidden exactly when a row has the key
\* and is not the caller's, Success exactly when a row has the key and is the
\* caller's, and then the row is removed.
C2_DeleteClassification ==
    \A w \in DoneReqs :
        (req[w].op \in Deletes /\ ~req[w].fail) =>
            /\ req[w].out \in {NotFound, Forbidden, Success}
            /\ (req[w].out = NotFound) <=> ~req[w].existed
            /\ (req[w].out = Forbidden) <=>
                    (req[w].existed /\ req[w].owner # req[w].sub)
            /\ (req[w].out = Success) <=>
                    (req[w].existed /\ req[w].owner = req[w].sub)
            /\ (req[w].out = Success) => req[w].post = "removed"

C2_Witness ==
    \E w \in DoneReqs :
        /\ req[w].op = "delete_comment" /\ ~req[w].fail
        /\ req[w].existed /\ req[w].owner = req[w].sub
        /\ req[w].out = Success /\ req[w].post = "removed"

SameDelete(w, v) ==
    /\ req[w].op \in Deletes /\ req[v].op = req[w].op
    /\ req[v].slug = req[w].slug /\ req[v].cid = req[w].cid
    /\ req[v].sub = req[w].sub
    /\ ~req[w].fail /\ ~req[v].fail

C4_DeleteHistory ==
    /\ \A w \in DoneReqs :
        (req[w].op \in Deletes /\ ~req[w].fail) =>
            /\ req[w].hist \in {"never", "gone"} => req[w].out = NotFound
            /\ (req[w].existed /\ req[w].owner # req[w].sub) => req[w].out = Forbidden
            /\ (req[w].existed /\ req[w].owner = req[w].sub) => req[w].out = Success
    /\ \A slug \in gone : ArticleAt(article, slug) = {}
    /\ \A cid \in goneComments : \A c \in comment : c.comment_id # cid

C4_Witness ==
    \E w \in DoneReqs :
        /\ req[w].op = "delete_article" /\ ~req[w].fail
        /\ req[w].hist = "gone" /\ req[w].out = NotFound

\* C5: when the store executes the statement, update_article returns
\* NotFound for a slug that names no article, Forbidden for another user's
\* article, and Success with the update applied for the caller's article.
C5_UpdateClassification ==
    \A w \in DoneReqs :
        (req[w].op = "update_article" /\ ~req[w].fail) =>
            /\ ~req[w].existed => req[w].out = NotFound
            /\ (req[w].existed /\ req[w].owner # req[w].sub) => req[w].out = Forbidden
            /\ (req[w].existed /\ req[w].owner = req[w].sub) => req[w].out = Success

---------------------------------------------------------------------------
(* TokenCodec and AuthMiddleware: claims C6 .. C10 *)

MwDone(kind) == mw.pc # "idle" /\ mw.kind = kind
MwAtSec == UnixTimestamp(mw.at)
\* the request carried "Bearer <jwt>" with a token the server issued
Genuine(value) ==
    value.visible /\ value.scheme = SCHEME_PREFIX /\ value.jwt \in IssuedJwts
MwRejected == mw.pc = "rejected" /\ ~mw.next /\ mw.resp = Unauthorized /\ mw.ext = {}

C7_MaybeAuthNeverFails ==
    MwDone("maybe_auth") =>
        /\ mw.next /\ mw.pc = "handler" /\ mw.resp # Unauthorized
        /\ mw.authorization = {} => mw.ext = {}
        /\ \A value \in mw.authorization :
            (\/ ~Genuine(value)
             \/ MwAtSec > value.jwt.claims.exp + Leeway) => mw.ext = {}

\* C8: whenever auth or maybe_auth hands the request on with an identity,
\* the presented token is one with_sub_to_jwt returned, and the identity is
\* the user id that call was given.
C8_IdentityIsTokenSubject ==
    (mw.pc = "handler" /\ mw.ext # {}) =>
        \A claims \in mw.ext : \A value \in mw.authorization :
            \E e \in issued : e.value = value /\ e.sub = claims.sub

C8_Witness ==
    /\ MwDone("auth") /\ mw.pc = "handler"
    /\ \E e \in issued : mw.authorization = {e.value} /\ mw.ext = {e.value.jwt.claims}
    /\ mw.at > StartSec * TicksPerSec

\* C9: for every token with_sub_to_jwt returned, exp - iat is exactly the
\* session length, and at any time less than the session length after iat,
\* from_jwt of the value without its "Bearer " prefix gives the sub that was
\* passed in.
C9_RoundTrip ==
    \A e \in issued :
        /\ strip_prefix(e.value, SCHEME_PREFIX) # {}
        /\ \A jwt \in strip_prefix(e.value, SCHEME_PREFIX) :
            /\ jwt.claims.exp - jwt.claims.iat = DEFAULT_SESSION_LENGTH
            /\ (UnixTimestamp(now) - jwt.claims.iat < DEFAULT_SESSION_LENGTH) =>
                  /\ from_jwt(jwt, now).ok
                  /\ from_jwt(jwt, now).claims.sub = e.sub

C9_Witness ==
    \E e \in issued :
        /\ e.value.jwt.claims.iat * TicksPerSec < now
        /\ UnixTimestamp(now) < e.value.jwt.claims.exp
        /\ from_jwt(e.value.jwt, now).claims.sub = e.sub
        /\ MwDone("auth") /\ mw.at = now /\ mw.authorization = {e.value}
        /\ mw.ext = {[sub |-> e.sub, iat |-> e.value.jwt.claims.iat,
                      exp |-> e.value.jwt.claims.iat + DEFAULT_SESSION_LENGTH]}

C11_ForeignKeyRejected ==
    mw.pc # "idle" =>
        \A value \in mw.authorization :
            value.jwt.sig.key # rsa_private_key =>
                /\ ~decode(value.jwt, rsa_public_key, ValidationNew("RS256"), mw.at).ok
                /\ ~from_jwt(value.jwt, mw.at).ok
                /\ mw.ext = {}
                /\ mw.kind = "auth" => MwRejected

C11_Witness ==
    /\ MwDone("auth") /\ MwRejected
    /\ \E value \in mw.authorization : \E e \in issued :
         /\ value.visible /\ value.scheme = SCHEME_PREFIX
         /\ value.jwt = encode("RS256", value.jwt.claims, "priv2")
         /\ value.jwt.claims.sub # e.sub
         /\ value.jwt.claims.exp > e.value.jwt.claims.exp
         /\ MwAtSec < value.jwt.claims.exp

DecodeErrors == {"InvalidToken", "InvalidAlgorithm", "InvalidSignature", "ExpiredSignature"}
DecodeOf(jwt, t) == decode(jwt, rsa_public_key, ValidationNew("RS256"), t)

\* C12: whichever way decode fails (malformed token, wrong algorithm, bad
\* signature, expired), from_jwt gives the one outcome Unauthorized and auth
\* the one response Unauthorized; the failure never becomes Internal and
\* the answers for two kinds of failure do not differ.
C12_DecodeFailureIsUnauthorized ==
    MwDone("auth") =>
        \A value \in mw.authorization :
            (value.visible /\ value.scheme = SCHEME_PREFIX
               /\ ~DecodeOf(value.jwt, mw.at).ok) =>
                /\ DecodeOf(value.jwt, mw.at).err \in DecodeErrors
                /\ from_jwt(value.jwt, mw.at) = Err(Unauthorized)
                /\ MwRejected
                /\ [next |-> mw.next, ext |-> mw.ext, resp |-> mw.resp]
                      = Reject(Unauthorized)

C12_Witness ==
    /\ MwDone("auth") /\ MwRejected
    /\ \E value \in mw.authorization :
         /\ value.visible /\ value.scheme = SCHEME_PREFIX
         /\ DecodeOf(value.jwt, mw.at).err = "ExpiredSignature"
    /\ \A k \in DecodeErrors : \E h \in HeaderValues : DecodeOf(h.jwt, now).err = k

---------------------------------------------------------------------------
(* CredentialHasher: claims C13, C14 *)

\* C13: for every call hash_password(p): verify_password(p, result)
\* succeeds and verify_password(p2, result) fails for every p2 # p; two
\* calls of hash_password use distinct salts and return different strings,
\* also for the same p, and each string verifies its p.
C13_HashVerify ==
    /\ \A h \in hashed :
        /\ verify_password(h.password, h.out) = Success
        /\ \A p2 \in Passwords \ {h.password} : verify_password(p2, h.out) = Unauthorized
    /\ \A h1 \in hashed : \A h2 \in hashed :
        h1.call # h2.call => h1.out.salt # h2.out.salt /\ h1.out # h2.out
    /\ \A h \in hashed :
        (vp.password_hash = h.out) => (vp.out = Success <=> vp.password = h.password)

C13_Witness ==
    \E h1 \in hashed : \E h2 \in hashed :
        /\ h1.call # h2.call /\ h1.password = h2.password /\ h1.out # h2.out
        /\ vp.password_hash = h2.out /\ vp.password = h2.password /\ vp.out = Success
        /\ \E p2 \in Passwords : verify_password(p2, h1.out) = Unauthorized

---------------------------------------------------------------------------
(* OwnershipGuard: claims C15, C17, C18, C20 *)

\* C15: a store failure during delete_article, delete_comment or
\* update_article is answered as Internal, never as Forbidden or NotFound;
\* Forbidden is answered only when the store executed the statement, the
\* row exists and the caller is not its owner.
C15_StoreFailureIsInternal ==
    \A w \in DoneReqs :
        req[w].op \in Guarded =>
            /\ req[w].fail => req[w].out = Internal
            /\ req[w].out = Forbidden =>
                  ~req[w].fail /\ req[w].existed /\ req[w].owner # req[w].sub

\* the same for the two delete handlers alone
C15_DeletesOnly ==
    \A w \in DoneReqs :
        req[w].op \in Deletes =>
            /\ req[w].fail => req[w].out = Internal
            /\ req[w].out = Forbidden =>
                  ~req[w].fail /\ req[w].existed /\ req[w].owner # req[w].sub

---------------------------------------------------------------------------
(* users.rs handlers: claims C16, C19 *)

\* C16: whatever registrations, logins, profile updates and password
\* changes have taken place since, every token a handler issued is, while
\* unexpired, still decoded by from_jwt to the sub it was issued for, and
\* still taken by auth as that identity.
C16_TokensStayValid ==
    \A e \in issued :
        UnixTimestamp(now) < e.value.jwt.claims.exp =>
            /\ from_jwt(e.value.jwt, now).ok
            /\ from_jwt(e.value.jwt, now).claims.sub = e.sub
            /\ auth({e.value}, now).next
            /\ \A c \in auth({e.value}, now).ext : c.sub = e.sub

\* a password change has just issued a new token to a user who holds an
\* older one
C16_Witness ==
    /\ ulast.op = "update_user" /\ ulast.password # None /\ ulast.out = Success
    /\ \E e1 \in issued : \E e2 \in ulast.token :
        /\ e1.sub = e2.sub
        /\ e1.value.jwt.claims.iat < e2.value.jwt.claims.iat
        /\ e2 \in issued
        /\ auth({e1.value}, now).ext = {e1.value.jwt.claims}

\* C19: every login_user step: a token is in the response only if a row
\* with the given email exists and its stored hash was made from the given
\* password, and then the token is the one for that row's user_id; with no
\* such row the answer is UnprocessableEntity, with a row and another
\* password Unauthorized, in both cases without a token; the table is left
\* as it was.
C19_LoginIssuesOnlyVerified ==
    [][(ulast'.op = "login_user" /\ now' = now) =>
        LET found == {u \in user : u.email = ulast'.email}
            good == {u \in found : u.password_hash.hash.password = ulast'.password}
        IN  /\ ulast'.token # {} =>
                  /\ ulast'.out = Success
                  /\ \E u \in good : ulast'.token = TokenFor(u.user_id, now)
            /\ ulast'.out = Success => ulast'.token # {}
            /\ (~ulast'.fail /\ found = {}) =>
                  ulast'.out = UnprocessableEntity /\ ulast'.token = {}
            /\ (~ulast'.fail /\ found # {} /\ good = {}) =>
                  ulast'.out = Unauthorized /\ ulast'.token = {}
            /\ issued' \subseteq issued \cup ulast'.token
            /\ user' = user
      ]_vars

C19_Witness ==
    /\ ulast.op = "login_user" /\ ulast.out = Success
    /\ Cardinality(user) = 2
    /\ \E u \in user :
        /\ u.email = ulast.email
        /\ u.password_hash.hash.password = ulast.password
        /\ ulast.token = TokenFor(u.user_id, now)
        /\ \E v \in user : v.user_id # u.user_id /\ v.password_hash.hash.password # ulast.password

\* C17: in every state of the store, whatever requests ran or are in
\* flight, the delete statement of delete_article and of delete_comment,
\* for every slug, comment id and caller, never returns deleted = true with
\* existed = false; and a delete that answered Success found the row.
C17_DeletedImpliesExisted ==
    /\ \A slug \in Slugs, sub \in Users :
        LET r == DeleteArticleStmt(article, comment, slug, sub)
        IN  r.deleted => r.existed
    /\ \A slug \in Slugs, cid \in 1..MaxComments, sub \in Users :
        LET r == DeleteCommentStmt(article, comment, slug, cid, sub)
        IN  r.deleted => r.existed
    /\ \A w \in DoneReqs :
        (req[w].op \in Deletes /\ req[w].out = Success) => req[w].existed

\* a comment was deleted while another request was in flight, and the
\* article statement would delete a row now
C17_Witness ==
    /\ \E w \in DoneReqs :
        /\ req[w].op = "delete_comment" /\ req[w].out = Success /\ req[w].existed
        /\ \E v \in Workers \ {w} : req[v].pc = "ready" /\ req[v].op = "delete_article"
                                      /\ req[v].sub = req[w].sub
    /\ \E slug \in Slugs, sub \in Users :
        LET r == DeleteArticleStmt(article, comment, slug, sub)
        IN  r.deleted /\ r.existed

\* C18: the step in which a handler runs leaves the tables article and
\* article_comment exactly as they were when the handler is delete_article
\* or delete_comment and answers Forbidden or NotFound, and when it is
\* update_article and answers any error.
C18_RefusedLeavesStore ==
    [][\A w \in Workers :
        (/\ req[w].pc = "ready" /\ req'[w].pc = "done"
         /\ \/ req'[w].op \in Deletes /\ req'[w].out \in {Forbidden, NotFound}
            \/ req'[w].op = "update_article" /\ req'[w].out # Success)
        => (article' = article /\ comment' = comment)
      ]_vars

\* an update refused for a taken slug and a delete refused to a non-owner,
\* both rows still in the table
C18_Witness ==
    \E w \in DoneReqs : \E v \in DoneReqs :
        /\ req[w].op = "update_article" /\ req[w].out = UnprocessableEntity
        /\ req[w].existed /\ req[w].post = "same"
        /\ req[v].op = "delete_article" /\ req[v].out = Forbidden
        /\ \E r \in article : r.slug = req[v].slug /\ r.user_id # req[v].sub
        /\ \E r \in article : r.slug = req[w].slug /\ r.user_id = req[w].sub

\* C20: every step in which delete_comment runs (the store executing the
\* statement): a comment leaves the table only if it has the given
\* comment_id, belongs to the article the slug names and is the caller's,
\* and then it alone; when a comment with that comment_id exists but under
\* another article than the slug names, the answer is NotFound for every
\* caller, its author included, and the tables stay as they were.
C20_CommentKeyIsPair ==
    [][\A w \in Workers :
        (/\ req[w].pc = "ready" /\ req'[w].pc = "done"
         /\ req'[w].op = "delete_comment" /\ ~req'[w].fail)
        => LET rows == {c \in comment : c.comment_id = req[w].cid}
               under == {c \in rows : \E a \in article :
                            a.slug = req[w].slug /\ a.article_id = c.article_id}
           IN  /\ comment' # comment =>
                     \E c \in under : c.user_id = req[w].sub /\ comment' = comment \ {c}
               /\ (rows # {} /\ under = {}) =>
                     req'[w].out = NotFound /\ comment' = comment
               /\ article' = article
      ]_vars

\* the author asked to delete their comment through the slug of another,
\* existing article and got NotFound; the comment is still there
C20_Witness ==
    \E w \in DoneReqs :
        /\ req[w].op = "delete_comment" /\ req[w].out = NotFound /\ ~req[w].fail
        /\ \E c \in comment : \E a \in article : \E b \in article :
            /\ c.comment_id = req[w].cid /\ c.user_id = req[w].sub
            /\ a.article_id = c.article_id /\ a.slug # req[w].slug
            /\ b.slug = req[w].slug /\ b.article_id # c.article_id

========================================================================
